---- MODULE Spec2Model ----
(***************************************************************************)
(* Model of the untrusted-code execution path of src/main.py:              *)
(* run_code (the coordinator, one call per request thread), the            *)
(* module-level ProcessPoolExecutor(max_workers=1) and _run_user_code      *)
(* (the function the worker process runs).                                 *)
(*                                                                         *)
(* Time is discrete: one Tick is one second of wall-clock time, so the     *)
(* timeout of future.result(timeout=2) is two ticks.                       *)
(***************************************************************************)
EXTENDS Integers, Sequences, FiniteSets, TLC

\* ---------------------------------------------------------------- bounds
MaxReq == 2          \* number of run_code calls in a behaviour

\* ------------------------------------------------------- program constants
two_workers == 1 + 1 \* mutant: a pool of two worker processes
max_workers == 1     \* ProcessPoolExecutor(max_workers=1)
timeout == 2         \* future.result(timeout=2)

\* Optional[str]: None is the empty tuple, a string s is <<s>>
None == <<>>
Some(s) == <<s>>

PolicyMessage == "Sorry, importing modules or using special names isn't allowed."
TimeoutMessage == "Your code took too long to finish."

\* ---------------------------------------------------------------- snippets
\* Code texts are tuples of characters, so that the substring filter is
\* computed on the text as the source computes it.
P_print  == <<"p","r","i","n","t","(","1",")">>
P_pass   == <<"p","a","s","s">>
P_import == <<"i","m","p","o","r","t"," ","o","s">>
P_dunder == <<"a","_","_","b","=","1">>
P_div    == <<"p","r","i","n","t","(","1",")",";","1","/","0">>
P_assert == <<"a","s","s","e","r","t"," ","0">>
P_name   == <<"x">>
P_warn   == <<"1"," ","i","s"," ","1">>
P_slow   == <<"s","u","m","(","r","a","n","g","e","(","9","*","*","9",")",")">>
P_loop   == <<"p","r","i","n","t","(","1",")","\n","w","h","i","l","e"," ","1",":","p","a","s","s">>
P_nap    == <<"s","u","m","(","r","a","n","g","e","(","9","*","*","8",")",")">>
P_assign == <<"x","=","p","r","i","n","t","(","1",")">>

Snippets == {P_print, P_pass, P_import, P_dunder, P_div, P_assert, P_name,
             P_warn, P_slow, P_loop, P_nap, P_assign}

\* What exec(code, sandbox_globals, sandbox_locals) does for each text when the
\* sandbox holds the allow-listed builtins only:
\*   stdout  what it prints on sys.stdout (up to the raise, if it raises)
\*   stderr  what is written on sys.stderr
\*   raised  None, or <<str(e)>> of the Exception it raises
\*   halts   FALSE for a snippet that never terminates
\*   steps   the seconds of CPU it needs before it returns or raises
Behaviour(out, err, exc, h, n) ==
    [stdout |-> out, stderr |-> err, raised |-> exc, halts |-> h, steps |-> n]

exec(code) ==
    CASE code = P_print  -> Behaviour("1\n", "", None, TRUE, 0)
      [] code = P_pass   -> Behaviour("", "", None, TRUE, 0)
      [] code = P_import -> Behaviour("", "", Some("__import__ not found"), TRUE, 0)
      [] code = P_dunder -> Behaviour("", "", None, TRUE, 0)
      [] code = P_div    -> Behaviour("1\n", "", Some("division by zero"), TRUE, 0)
      [] code = P_assert -> Behaviour("", "", Some(""), TRUE, 0)
      [] code = P_name   -> Behaviour("", "", Some("name 'x' is not defined"), TRUE, 0)
      [] code = P_warn   -> Behaviour("", "<string>:1: SyntaxWarning: \"is\" with a literal", None, TRUE, 0)
      [] code = P_slow   -> Behaviour("", "", None, TRUE, timeout + 1)
      [] code = P_loop   -> Behaviour("1\n", "", None, FALSE, 0)
      [] code = P_nap    -> Behaviour("", "", None, TRUE, 1)
      [] code = P_assign -> Behaviour("1\n", "", None, TRUE, 0)

\* The names a text binds in sandbox_locals when it runs
Defines(code) == IF code = P_assign THEN {"x"} ELSE {}

\* exec when the sandbox already holds the names in names: the text `x`
\* evaluates x instead of raising NameError
exec_in(code, names) ==
    IF code = P_name /\ "x" \in names
    THEN Behaviour("", "", None, TRUE, 0)
    ELSE exec(code)

\* line 87-88: stdout = io.StringIO(); stderr = io.StringIO()
\* mutant: one module-level buffer, never emptied
ReusedBuffer(old) == old
FreshBuffer(old) == ""

\* lines 94-95: sandbox_globals = {...}; sandbox_locals = {}
\* mutant: one module-level sandbox dict, kept across calls
ReusedSandbox(old) == old
FreshSandbox(old) == {}

\* sys.stdout, sys.stderr of a worker process
OriginalStreams == <<"stdout", "stderr">>
RedirectedStreams == <<"StringIO", "StringIO">>

\* line 102-103: finally: sys.stdout, sys.stderr = old_out, old_err
\* mutant: no restore
no_restore(old, current) == current
finally_restore(old, current) == old

\* "sub" in code
Contains(code, sub) ==
    \E i \in 1..(Len(code) - Len(sub) + 1) : SubSeq(code, i, i + Len(sub) - 1) = sub

\* line 84: "__" in code or "import" in code
Disallowed(code) ==
    Contains(code, <<"_","_">>) \/ Contains(code, <<"i","m","p","o","r","t">>)

\* mutant: the except branch returns no captured output
run_user_code_dropping_output(code, out, err, names) ==
    IF Disallowed(code)
    THEN <<"", Some(PolicyMessage)>>
    ELSE LET b == exec_in(code, names) IN
         IF b.raised # None
         THEN <<"", Some(b.raised[1])>>
         ELSE <<out, IF err # "" THEN Some(err) ELSE None>>

\* _run_user_code: the (stdout, error) pair the worker hands back, where
\* out = stdout.getvalue(), err = stderr.getvalue() and names are the names
\* the sandbox held when exec was called
run_user_code(code, out, err, names) ==
    IF Disallowed(code)
    THEN <<"", Some(PolicyMessage)>>
    ELSE LET b == exec_in(code, names) IN
         IF b.raised # None
         THEN <<out, Some(b.raised[1])>>
         ELSE <<out, IF err # "" THEN Some(err) ELSE None>>

\* RunCodeResponse(output=out or ("No output" if not err else ""), error=err, timed_out=False)
Truthy(err) == err # None /\ err[1] # ""
\* mutant: the placeholder chosen on the output alone
PlaceholderIgnoringError(out, err) == IF out # "" THEN out ELSE "No output"
Placeholder(out, err) == IF out # "" THEN out ELSE IF ~Truthy(err) THEN "No output" ELSE ""

NoResponse == [status |-> 0, output |-> "", error |-> None, timed_out |-> FALSE]
ResultResponse(out, err) ==
    [status |-> 200, output |-> Placeholder(out, err), error |-> err, timed_out |-> FALSE]
\* mutant: the placeholder of line 112 applied to the timeout response as well
TimeoutResponseWithPlaceholder ==
    [status |-> 200, output |-> "No output", error |-> Some(TimeoutMessage), timed_out |-> TRUE]
\* line 114
TimeoutResponse ==
    [status |-> 200, output |-> "", error |-> Some(TimeoutMessage), timed_out |-> TRUE]
\* mutant: the failure is merged into the error field of a normal response
FailureAsResult ==
    [status |-> 200, output |-> "", error |-> Some("A process in the process pool was terminated abruptly"),
     timed_out |-> FALSE]
\* lines 115-116: raise HTTPException(status_code=500, detail=str(e))
HTTPException500 == [status |-> 500, output |-> "", error |-> None, timed_out |-> FALSE]

\* concurrent.futures.Future of one submitted call
PendingFuture == [state |-> "PENDING", result |-> <<"", None>>]
FinishedFuture(r) == [state |-> "FINISHED", result |-> r]
BrokenFuture == [state |-> "BROKEN", result |-> <<"", None>>]

Workers == 1..max_workers

\* mutant: the newest pending work item is taken first
NewestWorkItem(q) == Len(q)
\* The executor hands its pending work items to the workers in submission order
NextWorkItem(q) == 1

RemoveAt(q, k) == [j \in 1..(Len(q) - 1) |-> IF j < k THEN q[j] ELSE q[j + 1]]

\* ------------------------------------------------------------------ state
VARIABLES
    code,       \* code[i]: the text of request i (requests are numbered by arrival)
    waited,     \* waited[i]: seconds the caller of request i has spent in future.result
    future,     \* future[i]: the Future returned by _executor.submit for request i
    response,   \* response[i]: what run_code returned for request i (status 0: not yet)
    seen,       \* seen[i]: the requests that had been answered when request i arrived
    queue,      \* the executor's pending work items, oldest first
    running,    \* running[w]: the request worker w is executing, 0 when idle
    remaining,  \* remaining[w]: seconds of CPU the running snippet still needs
    captured,   \* captured[w]: contents of the stdout StringIO of worker w's last call
    captured_err, \* captured_err[w]: contents of its stderr StringIO
    sandbox,    \* sandbox[w]: the names held by the sandbox dicts of its last call
    sys_streams, \* sys_streams[w]: what sys.stdout, sys.stderr are bound to in worker w
    old_streams, \* old_streams[w]: old_out, old_err of its last call
    broken,     \* the pool is broken (a worker process died)
    started     \* the requests in the order the workers started them

process == <<captured, captured_err, sandbox, sys_streams, old_streams>>

vars == <<code, waited, future, response, seen, queue, running, remaining,
          process, broken, started>>

Requests == 1..Len(code)
Waiting(i) == response[i].status = 0
Answered == {i \in Requests : response[i].status # 0}

Init ==
    /\ code = <<>> /\ waited = <<>> /\ future = <<>> /\ response = <<>>
    /\ seen = <<>>
    /\ queue = <<>>
    /\ running = [w \in Workers |-> 0]
    /\ remaining = [w \in Workers |-> 0]
    /\ captured = [w \in Workers |-> ""]
    /\ captured_err = [w \in Workers |-> ""]
    /\ sandbox = [w \in Workers |-> {}]
    /\ sys_streams = [w \in Workers |-> OriginalStreams]
    /\ old_streams = [w \in Workers |-> OriginalStreams]
    /\ broken = FALSE
    /\ started = <<>>

\* run_code, line 110: future = _executor.submit(_run_user_code, req.code)
Submit(c) ==
    /\ Len(code) < MaxReq
    /\ ~broken
    /\ code' = Append(code, c)
    /\ waited' = Append(waited, 0)
    /\ future' = Append(future, PendingFuture)
    /\ response' = Append(response, NoResponse)
    /\ seen' = Append(seen, Answered)
    /\ queue' = Append(queue, Len(code) + 1)
    /\ UNCHANGED <<running, remaining, process, broken, started>>

\* run_code, lines 110, 115-116: submit raises BrokenProcessPool on a broken pool
SubmitBroken(c) ==
    /\ Len(code) < MaxReq
    /\ broken
    /\ code' = Append(code, c)
    /\ waited' = Append(waited, 0)
    /\ future' = Append(future, BrokenFuture)
    /\ response' = Append(response, HTTPException500)
    /\ seen' = Append(seen, Answered)
    /\ UNCHANGED <<queue, running, remaining, process, broken, started>>

\* An idle worker process takes the next work item and calls _run_user_code.
\* A text the filter rejects returns at line 85 without touching the process;
\* otherwise lines 87-96 make the buffers and the sandbox, redirect the
\* streams and call exec, which prints into the buffers.
StartWork(w) ==
    /\ ~broken
    /\ running[w] = 0
    /\ queue # <<>>
    /\ LET k == NextWorkItem(queue)
           i == queue[k]
           names == FreshSandbox(sandbox[w])
           b == exec_in(code[i], names)
       IN /\ running' = [running EXCEPT ![w] = i]
          /\ queue' = RemoveAt(queue, k)
          /\ started' = Append(started, i)
          /\ IF Disallowed(code[i])
             THEN /\ remaining' = [remaining EXCEPT ![w] = 0]
                  /\ UNCHANGED process
             ELSE /\ remaining' = [remaining EXCEPT ![w] = b.steps]
                  /\ captured' = [captured EXCEPT
                        ![w] = FreshBuffer(captured[w]) \o b.stdout]
                  /\ captured_err' = [captured_err EXCEPT
                        ![w] = FreshBuffer(captured_err[w]) \o b.stderr]
                  /\ sandbox' = [sandbox EXCEPT ![w] = names]
                  /\ old_streams' = [old_streams EXCEPT ![w] = sys_streams[w]]
                  /\ sys_streams' = [sys_streams EXCEPT ![w] = RedirectedStreams]
    /\ UNCHANGED <<code, waited, future, response, seen, broken>>

Halts(i) == Disallowed(code[i]) \/ exec(code[i]).halts

\* mutant: the result of a work item is set on the future of the oldest
\* caller that is still waiting
OldestWaitingFuture(i) ==
    IF \E j \in Requests : Waiting(j) /\ future[j].state = "PENDING"
    THEN CHOOSE j \in Requests :
            /\ Waiting(j) /\ future[j].state = "PENDING"
            /\ \A m \in Requests : Waiting(m) /\ future[m].state = "PENDING" => j <= m
    ELSE i
\* The future on which the result of request i's work item is set: its own
ResultFuture(i) == i

\* _run_user_code returns (lines 85, 99, 101): the streams are restored
\* (line 103), the names the snippet bound stay in the discarded sandbox, and
\* the result is set on the future
FinishWork(w) ==
    /\ running[w] # 0
    /\ Halts(running[w])
    /\ remaining[w] = 0
    /\ LET i == running[w] IN
       /\ future' = [future EXCEPT ![ResultFuture(i)] = FinishedFuture(
             run_user_code(code[i], captured[w], captured_err[w], sandbox[w]))]
       /\ IF Disallowed(code[i])
          THEN UNCHANGED <<sandbox, sys_streams>>
          ELSE /\ sandbox' = [sandbox EXCEPT ![w] = sandbox[w] \cup Defines(code[i])]
               /\ sys_streams' = [sys_streams EXCEPT
                     ![w] = finally_restore(old_streams[w], sys_streams[w])]
    /\ running' = [running EXCEPT ![w] = 0]
    /\ UNCHANGED <<code, waited, response, seen, queue, remaining, broken, started,
                   captured, captured_err, old_streams>>

\* run_code, lines 111-112: future.result returns the pair within the timeout
ReturnResult(i) ==
    /\ Waiting(i)
    /\ future[i].state = "FINISHED"
    /\ response' = [response EXCEPT
          ![i] = ResultResponse(future[i].result[1], future[i].result[2])]
    /\ UNCHANGED <<code, waited, future, seen, queue, running, remaining,
                   process, broken, started>>

\* mutant: the timeout is enforced on the snippet the worker is running
DeadlineWhileRunning(i) ==
    waited[i] = timeout /\ \E w \in Workers : running[w] = i
\* mutant: the timeout applies only once the snippet has been started
DeadlineOnceStarted(i) ==
    waited[i] = timeout /\ \E k \in 1..Len(started) : started[k] = i
\* The instant at which future.result(timeout=2) gives up on request i
Deadline(i) == waited[i] = timeout

\* mutant: the except branch cancels the future, which drops a work item
\* that is still pending
PendingWithoutCancelled(q, i) == SelectSeq(q, LAMBDA j : j # i)
\* lines 113-114: the except branch does not call future.cancel()
PendingAfterTimeout(q, i) == q

\* run_code, lines 111, 113-114: future.result raises FuturesTimeout.
\* The future is not cancelled and the worker is not touched.
ReturnTimeout(i) ==
    /\ Waiting(i)
    /\ future[i].state = "PENDING"
    /\ Deadline(i)
    /\ response' = [response EXCEPT ![i] = TimeoutResponse]
    /\ queue' = PendingAfterTimeout(queue, i)
    /\ UNCHANGED <<code, waited, future, seen, running, remaining,
                   process, broken, started>>

\* run_code, lines 111, 115-116: future.result raises BrokenProcessPool
ReturnError(i) ==
    /\ Waiting(i)
    /\ future[i].state = "BROKEN"
    /\ response' = [response EXCEPT ![i] = HTTPException500]
    /\ UNCHANGED <<code, waited, future, seen, queue, running, remaining,
                   process, broken, started>>

\* A worker process dies abruptly: the executor marks the pool broken and
\* fails every pending future with BrokenProcessPool.
WorkerCrash ==
    /\ ~broken
    /\ Len(code) > 0
    /\ broken' = TRUE
    /\ future' = [i \in Requests |->
                    IF future[i].state = "PENDING" THEN BrokenFuture ELSE future[i]]
    /\ queue' = <<>>
    /\ running' = [w \in Workers |-> 0]
    /\ remaining' = [w \in Workers |-> 0]
    /\ captured' = [w \in Workers |-> ""]
    /\ captured_err' = [w \in Workers |-> ""]
    /\ sandbox' = [w \in Workers |-> {}]
    /\ sys_streams' = [w \in Workers |-> OriginalStreams]
    /\ old_streams' = [w \in Workers |-> OriginalStreams]
    /\ UNCHANGED <<code, waited, response, seen, started>>

\* One second passes.  Nothing that can act at once is left waiting:
\* a caller whose future is done or whose timeout has expired returns first,
\* and a worker with work to take or a result to deliver does so first.
Tick ==
    /\ \A i \in Requests : Waiting(i) => future[i].state = "PENDING" /\ ~Deadline(i)
    /\ \A w \in Workers : running[w] = 0 => (queue = <<>> \/ broken)
    /\ \A w \in Workers : running[w] # 0 /\ Halts(running[w]) => remaining[w] > 0
    /\ \/ \E i \in Requests : Waiting(i)
       \/ \E w \in Workers : running[w] # 0 /\ remaining[w] > 0
    /\ waited' = [i \in Requests |-> IF Waiting(i) THEN waited[i] + 1 ELSE waited[i]]
    /\ remaining' = [w \in Workers |->
                       IF running[w] # 0 /\ remaining[w] > 0
                       THEN remaining[w] - 1 ELSE remaining[w]]
    /\ UNCHANGED <<code, future, response, seen, queue, running, process,
                   broken, started>>

Next ==
    \/ \E c \in Snippets : Submit(c)
    \/ \E c \in Snippets : SubmitBroken(c)
    \/ \E w \in Workers : StartWork(w)
    \/ \E w \in Workers : FinishWork(w)
    \/ \E i \in Requests : ReturnResult(i)
    \/ \E i \in Requests : ReturnTimeout(i)
    \/ \E i \in Requests : ReturnError(i)
    \/ WorkerCrash
    \/ Tick

Spec == Init /\ [][Next]_vars

TypeOK ==
    /\ Len(code) <= MaxReq
    /\ \A i \in Requests : code[i] \in Snippets /\ waited[i] \in 0..timeout
    /\ \A w \in Workers : running[w] \in 0..MaxReq

\* ---------------------------------------------------------------- helpers
IsRunning(i) == \E w \in Workers : running[w] = i
IsQueued(i) == \E k \in 1..Len(queue) : queue[k] = i
WasStarted(i) == \E k \in 1..Len(started) : started[k] = i
Quick(i) == Disallowed(code[i]) \/ (exec(code[i]).halts /\ exec(code[i]).steps = 0)
Raises(i) == ~Disallowed(code[i]) /\ exec(code[i]).halts /\ exec(code[i]).raised # None
IsResult(i) == response[i].status = 200 /\ ~response[i].timed_out
IsTimeout(i) == response[i].status = 200 /\ response[i].timed_out
PolicyResponse ==
    [status |-> 200, output |-> "", error |-> Some(PolicyMessage), timed_out |-> FALSE]

\* ------------------------------------------------------------------ claims

\* C1 (as claimed): once a call whose snippet never terminates has returned
\* timed_out = true, a later request whose snippet is quick and passes the
\* filter is answered with timed_out = false and its own output.
C1_SelfHealsAfterTimeout ==
    \A i \in Requests :
        ( /\ ~broken
          /\ ~Waiting(i)
          /\ ~Disallowed(code[i]) /\ Quick(i)
          /\ \E j \in seen[i] : ~Halts(j) /\ IsTimeout(j) )
        => /\ IsResult(i)
           /\ response[i].output \in {exec(code[i]).stdout, "No output"}

\* C2 (as claimed): in the step in which a call returns the timeout result,
\* no worker is running that call's snippet any more and an idle worker of a
\* usable pool is available.
C2_WorkerFreedOnTimeout ==
    [][\A i \in Requests :
          (Waiting(i) /\ response'[i].status = 200 /\ response'[i].timed_out)
          => /\ \A w \in Workers : running'[w] # i
             /\ \E w \in Workers : running'[w] = 0
             /\ ~broken']_vars

\* C3 (as claimed): a request whose code contains "__" or "import" is never
\* submitted to the pool: it is never queued, never started by a worker.
C3_RejectedNeverDispatched ==
    \A i \in Requests :
        Disallowed(code[i]) => ~IsQueued(i) /\ ~IsRunning(i) /\ ~WasStarted(i)

\* C4 (as claimed): whatever the worker is doing, a request whose code fails
\* the filter is answered with output "", the policy message and
\* timed_out = false.
C4_RejectedGetsPolicyResult ==
    \A i \in Requests :
        (~broken /\ ~Waiting(i) /\ Disallowed(code[i])) => response[i] = PolicyResponse

\* C5: every response with timed_out = true has output "" and the fixed
\* timeout message as error.
C5_TimeoutResponseShape ==
    \A i \in Requests :
        (response[i].status = 200 /\ response[i].timed_out)
        => response[i].output = "" /\ response[i].error = Some(TimeoutMessage)

\* C5 witness: a call timed out while its snippet had already printed something
C5_Witness ==
    \E i \in Requests : \E w \in Workers :
        IsTimeout(i) /\ running[w] = i /\ captured[w] # ""

\* C6: when the worker delivers the result of accepted code before the caller's
\* timeout, the response has timed_out = false and its output is exactly what
\* the snippet printed, replaced by "No output" only when both the printed
\* output and the error are empty.
C6_OutputIsCapturedStdout ==
    [][\A i \in Requests :
          ( /\ ~Disallowed(code[i])
            /\ Waiting(i) /\ future[i].state = "FINISHED"
            /\ response'[i].status # 0 )
          => LET b == exec(code[i])
                 errorEmpty == IF b.raised # None THEN b.raised[1] = ""
                               ELSE b.stderr = ""
             IN /\ response'[i].status = 200
                /\ response'[i].timed_out = FALSE
                /\ response'[i].output =
                      IF b.stdout = "" /\ errorEmpty THEN "No output" ELSE b.stdout]_vars

\* C6 witness: one snippet printed nothing and had no error, another printed
\* nothing and wrote on stderr
C6_Witness ==
    \E i, j \in Requests :
        /\ code[i] = P_pass /\ IsResult(i) /\ response[i].output = "No output"
        /\ code[j] = P_warn /\ IsResult(j) /\ response[j].output = ""

\* C7 (as claimed): for code that raises, the error of the response is the
\* raised message and its output is what was printed before the error, also
\* when the message is empty and nothing was printed.
C7_RaisedErrorAsClaimed ==
    \A i \in Requests :
        (Raises(i) /\ IsResult(i))
        => /\ response[i].error = Some(exec(code[i]).raised[1])
           /\ response[i].output = exec(code[i]).stdout

\* C7 (amended): for code that raises, _run_user_code returns the pair
\* (printed output, raised message) instead of propagating the error, and the
\* response has that message as error, timed_out = false and the printed
\* output as output, except that the output is "No output" when nothing was
\* printed and the message is empty.
C7_RaisedError ==
    \A i \in Requests :
        Raises(i) =>
          LET b == exec(code[i]) IN
          /\ future[i].state = "FINISHED" => future[i].result = <<b.stdout, Some(b.raised[1])>>
          /\ IsResult(i) =>
               /\ response[i].error = Some(b.raised[1])
               /\ response[i].output =
                     IF b.stdout = "" /\ b.raised[1] = "" THEN "No output" ELSE b.stdout

\* C7 witness: one snippet raised after printing, another raised an empty
\* message before printing anything
C7_Witness ==
    \E i, j \in Requests :
        /\ code[i] = P_div /\ IsResult(i)
        /\ code[j] = P_assert /\ IsResult(j)

\* C8: no caller is ever more than the timeout into its wait, a caller that
\* has reached it can return at once, and every answered call was answered
\* within the timeout of its arrival.
C8_BoundedResponse ==
    \A i \in Requests :
        /\ waited[i] <= timeout
        /\ (Waiting(i) /\ waited[i] = timeout)
           => ENABLED (ReturnResult(i) \/ ReturnTimeout(i) \/ ReturnError(i))

\* C8 witness: a quick request queued behind another request's endless
\* snippet was answered when its timeout expired
C8_Witness ==
    \E i, j \in Requests :
        /\ i # j /\ ~Halts(j) /\ IsRunning(j)
        /\ Quick(i) /\ IsQueued(i) /\ ~Waiting(i) /\ waited[i] = timeout

\* C9: at most one snippet is executing at any time
C9_AtMostOneExecuting ==
    Cardinality({i \in Requests : IsRunning(i)}) <= 1

\* C9 witness: a snippet is still running after its call returned
\* timed_out = true, and another request is queued behind it
C9_Witness ==
    \E i \in Requests : IsRunning(i) /\ IsTimeout(i) /\ queue # <<>>

\* C10: the workers start the snippets in the order of their submission:
\* the started requests are in arrival order and every queued request
\* arrived after every started one.
C10_StartedInArrivalOrder ==
    /\ \A a, b \in 1..Len(started) : a < b => started[a] < started[b]
    /\ \A k \in 1..Len(started) : \A i \in Requests : IsQueued(i) => started[k] < i

\* C10 witness: two requests that were pending together have both been started
C10_Witness ==
    Len(started) = 2 /\ seen[started[2]] = {} /\ waited[started[1]] = waited[started[2]]

\* The pair a call of _run_user_code on the text c gives in a process that no
\* earlier call has touched
OwnPair(c) ==
    IF Disallowed(c)
    THEN <<"", Some(PolicyMessage)>>
    ELSE LET b == exec(c) IN
         <<b.stdout, IF b.raised # None THEN Some(b.raised[1])
                     ELSE IF b.stderr # "" THEN Some(b.stderr) ELSE None>>

C12_InternalErrorIsDistinct ==
    [][\A i \in 1..Len(code') :
          ((i \notin Requests \/ Waiting(i)) /\ response'[i].status # 0)
          => /\ response'[i].status = 500 <=> future'[i].state = "BROKEN"
             /\ response'[i].status = 200 <=> future'[i].state \in {"FINISHED", "PENDING"}
             /\ response'[i].status = 500 => response'[i].error = None]_vars

\* C12 witness: one call got the internal error, another the policy rejection
C12_Witness ==
    \E i, j \in Requests :
        response[i].status = 500 /\ response[j] = PolicyResponse

\* C13 (as claimed): after the worker process died and the call in flight got
\* the internal error, a later well-behaved request is executed and gets a
\* normal result.
C13_UsableAfterCrash ==
    \A i \in Requests :
        ( /\ ~Waiting(i) /\ Quick(i) /\ ~Disallowed(code[i])
          /\ \E j \in seen[i] : response[j].status = 500 )
        => IsResult(i)

\* C14: while a worker runs a snippet, its stdout and stderr buffers hold only
\* what that snippet wrote and its sandbox holds no name of an earlier
\* snippet; the output of a finished call is what its own code printed.
C14_FreshBuffersAndSandbox ==
    /\ \A w \in Workers :
          (running[w] # 0 /\ ~Disallowed(code[running[w]]))
          => /\ captured[w] = exec(code[running[w]]).stdout
             /\ captured_err[w] = exec(code[running[w]]).stderr
             /\ sandbox[w] = {}
    /\ \A i \in Requests :
          future[i].state = "FINISHED" => future[i].result[1] = OwnPair(code[i])[1]

\* C14 witness: a snippet that printed and bound x was followed on the same
\* worker by a snippet that reads x, which has finished
C14_Witness ==
    /\ Len(started) = 2
    /\ code[started[1]] = P_assign /\ code[started[2]] = P_name
    /\ future[started[2]].state = "FINISHED"

\* C15: a call returns timed_out = true exactly when its future is still
\* pending two seconds after its submit, whether its snippet is running, still
\* queued or quick; no caller waits longer than that.
C15_BudgetFromSubmit ==
    [][/\ \A i \in Requests :
             (Waiting(i) /\ response'[i].status # 0)
             => (response'[i].timed_out
                   <=> (future[i].state = "PENDING" /\ waited[i] = timeout))
       /\ \A i \in 1..Len(code') : response'[i].status = 0 => waited'[i] <= timeout]_vars

\* C15 witness: a quick snippet that was never started is reported timed out
C15_Witness ==
    \E i \in Requests : IsTimeout(i) /\ Quick(i) /\ ~WasStarted(i) /\ ~broken

\* C16: after a call has returned timed_out = true (and while the pool is not
\* broken) its snippet is still queued or running, or has been run to
\* completion; its response stays the timeout response.
C16_TimedOutStaysInPool ==
    \A i \in Requests :
        (IsTimeout(i) /\ ~broken)
        => /\ IsQueued(i) \/ IsRunning(i) \/ future[i].state = "FINISHED"
           /\ response[i] = TimeoutResponse

\* C16 witness: a quick snippet whose call timed out while it was queued has
\* since been executed to completion
C16_Witness ==
    \E i \in Requests : IsTimeout(i) /\ Quick(i) /\ future[i].state = "FINISHED"

\* C17: the result set on a call's future, and every non-timeout response, is
\* the pair produced by that call's own code.
C17_NoResultMixUp ==
    \A i \in Requests :
        /\ future[i].state = "FINISHED" => future[i].result = OwnPair(code[i])
        /\ IsResult(i) =>
             /\ future[i].state = "FINISHED"
             /\ response[i].error = OwnPair(code[i])[2]
             /\ response[i].output \in {OwnPair(code[i])[1], "No output"}

\* C17 witness: a snippet finished after its caller had timed out, and another
\* caller that was waiting meanwhile got a result
C17_Witness ==
    \E i, j \in Requests :
        /\ i # j /\ IsTimeout(i) /\ future[i].state = "FINISHED"
        /\ IsResult(j) /\ i \notin seen[j]

\* C18: whenever a worker is not inside _run_user_code, its sys.stdout and
\* sys.stderr are the objects they were before the call.
C18_StreamsRestored ==
    \A w \in Workers : running[w] = 0 => sys_streams[w] = OriginalStreams

\* C18 witness: the worker is idle after a call that raised and a call that
\* was rejected by the filter
C18_Witness ==
    \E i, j \in Requests :
        /\ Raises(i) /\ future[i].state = "FINISHED"
        /\ Disallowed(code[j]) /\ future[j].state = "FINISHED"
        /\ \A w \in Workers : running[w] = 0

====
